---- MODULE Spec2Model ----
(***************************************************************************)
(* Model of the Intel 8080 emulator core, src/emulator/src/core/emulator.rs: *)
(* the fetch/dispatch of execute_next, the jump/call/return handlers, the   *)
(* stack routines push/pop and the operand fetch read_addr.                 *)
(*                                                                          *)
(* A machine state is a record m = [pc, sp, ram, reg, flags].  pc and sp    *)
(* are u16 values.  ram is the byte store; it is kept as a function whose   *)
(* domain is the set of cells holding a non-zero byte (every other cell of  *)
(* 0 .. RamSize-1 holds 0), so that two memories are equal exactly when the *)
(* functions are equal.  Every routine of the source that returns an        *)
(* EResult is an operator returning [m, res, val]: m the machine state the  *)
(* routine leaves behind, res "ok", the error string, or "panic" when the   *)
(* routine aborts the process (unimplemented!(), index out of range, u16    *)
(* overflow in a build with overflow checks).                               *)
(***************************************************************************)
EXTENDS Integers, FiniteSets, Sequences, TLC

VARIABLES pc, sp, ram, reg, flags, status, steps, last, prev, calls

vars == <<pc, sp, ram, reg, flags, status, steps, last, prev, calls>>

(***************************************************************************)
(* Sizes and bounds                                                        *)
(***************************************************************************)

\* Number of execute_next calls explored from one initial state.
MaxSteps == 6

\* DefaultRam::size().  The RAM module is outside the sources at hand; the
\* size is pinned by tests::push_pop: a pop at sp = 0x3ffd succeeds and a
\* pop at sp = 0x3fff returns the error, so 0x3fff <= size <= 0x4000.
RamSize == 16384

U16 == 65536

Flags == {"zero", "carry", "parity", "sign", "aux"}

ErrPush == "PUSH: No more stack space"

ErrPop == "POP: No return address on the stack"

ErrReadAddr == "READ_ADDR: Not enough bytes available"

(***************************************************************************)
(* Byte store (RAM trait: Index<u16>, size, load_vec)                      *)
(***************************************************************************)

\* ram[a], for a < RamSize
RamGet(r, a) == IF a \in DOMAIN r THEN r[a] ELSE 0

\* ram[a] = v, for a < RamSize
RamSet(r, a, v) ==
    IF v = 0
    THEN [x \in (DOMAIN r) \ {a} |-> r[x]]
    ELSE [x \in (DOMAIN r) \cup {a} |-> IF x = a THEN v ELSE r[x]]

\* ram.load_vec(bytes, offset)
RECURSIVE load_vec(_, _, _)
load_vec(r, bytes, offset) ==
    IF bytes = << >>
    THEN r
    ELSE load_vec(RamSet(r, offset, Head(bytes)), Tail(bytes), offset + 1)

\* `self.ram.size() as u16`
SizeAsU16 == RamSize % U16

(***************************************************************************)
(* Results                                                                 *)
(***************************************************************************)

Ok(m, v) == [m |-> m, res |-> "ok", val |-> v]

Err(m, e) == [m |-> m, res |-> e, val |-> 0]

Panic(m) == [m |-> m, res |-> "panic", val |-> 0]

(***************************************************************************)
(* Stack and operand fetch                                                 *)
(***************************************************************************)

\* push with the two bytes stored in the opposite order
push_lowfirst(m, val) ==
    IF m.sp < 2
    THEN Err(m, ErrPush)
    ELSE IF m.sp - 1 >= RamSize
         THEN Panic(m)
         ELSE Ok([m EXCEPT !.sp = m.sp - 2,
                           !.ram = RamSet(RamSet(m.ram, m.sp - 1, val % 256),
                                          m.sp - 2, val \div 256)], 0)

\* push with the guard `self.sp <= 2`
push_le2(m, val) ==
    IF m.sp <= 2
    THEN Err(m, ErrPush)
    ELSE IF m.sp - 1 >= RamSize
         THEN Panic(m)
         ELSE Ok([m EXCEPT !.sp = m.sp - 2,
                           !.ram = RamSet(RamSet(m.ram, m.sp - 1, val \div 256),
                                          m.sp - 2, val % 256)], 0)

\* fn push(&mut self, val: u16): the guard is sp < 2; both stores index the
\* RAM, which aborts on an index >= size.
push(m, val) ==
    IF m.sp < 2
    THEN Err(m, ErrPush)
    ELSE LET sp1 == m.sp - 1
             sp2 == m.sp - 2
         IN  IF sp1 >= RamSize
             THEN Panic([m EXCEPT !.sp = sp1])
             ELSE LET r1 == RamSet(m.ram, sp1, val \div 256)
                  IN  IF sp2 >= RamSize
                      THEN Panic([m EXCEPT !.sp = sp2, !.ram = r1])
                      ELSE Ok([m EXCEPT !.sp = sp2,
                                        !.ram = RamSet(r1, sp2, val % 256)], 0)

\* pop returning (low << 8) | high
pop_swapped(m, oc) ==
    IF m.sp + 2 > SizeAsU16
    THEN Err(m, ErrPop)
    ELSE Ok([m EXCEPT !.sp = m.sp + 2],
            RamGet(m.ram, m.sp) * 256 + RamGet(m.ram, m.sp + 1))

\* pop with the guard `self.sp + 2 >= size`
pop_ge(m, oc) ==
    IF m.sp + 2 >= SizeAsU16
    THEN Err(m, ErrPop)
    ELSE Ok([m EXCEPT !.sp = m.sp + 2],
            RamGet(m.ram, m.sp + 1) * 256 + RamGet(m.ram, m.sp))

\* pop with the guard `self.sp + 1 > size`
pop_offbyone(m, oc) ==
    IF m.sp + 1 > SizeAsU16
    THEN Err(m, ErrPop)
    ELSE IF m.sp + 1 >= RamSize
         THEN Panic(m)
         ELSE Ok([m EXCEPT !.sp = m.sp + 2],
                 RamGet(m.ram, m.sp + 1) * 256 + RamGet(m.ram, m.sp))

\* pop without the second `self.sp += 1`
pop_adv1(m, oc) ==
    IF m.sp + 2 > SizeAsU16
    THEN Err(m, ErrPop)
    ELSE Ok([m EXCEPT !.sp = m.sp + 1],
            RamGet(m.ram, m.sp + 1) * 256 + RamGet(m.ram, m.sp))

\* fn pop(&mut self): `self.sp + 2` is a u16 addition; with overflow checks
\* (oc) it aborts when it exceeds 0xffff, without them it wraps.
pop(m, oc) ==
    IF m.sp + 2 >= U16 /\ oc
    THEN Panic(m)
    ELSE IF (m.sp + 2) % U16 > SizeAsU16
         THEN Err(m, ErrPop)
         ELSE IF m.sp >= RamSize
              THEN Panic(m)
              ELSE LET low == RamGet(m.ram, m.sp)
                       sp1 == m.sp + 1
                   IN  IF sp1 >= RamSize
                       THEN Panic([m EXCEPT !.sp = sp1])
                       ELSE LET high == RamGet(m.ram, sp1)
                            IN  Ok([m EXCEPT !.sp = (sp1 + 1) % U16],
                                   high * 256 + low)

\* read_addr returning (low << 8) | high
read_addr_swapped(m, oc) ==
    IF m.pc + 2 > SizeAsU16
    THEN Err(m, ErrReadAddr)
    ELSE Ok([m EXCEPT !.pc = m.pc + 2],
            RamGet(m.ram, m.pc) * 256 + RamGet(m.ram, m.pc + 1))

\* read_addr with the guard `self.pc + 2 >= size`
read_addr_ge(m, oc) ==
    IF m.pc + 2 >= SizeAsU16
    THEN Err(m, ErrReadAddr)
    ELSE Ok([m EXCEPT !.pc = m.pc + 2],
            RamGet(m.ram, m.pc + 1) * 256 + RamGet(m.ram, m.pc))

\* read_addr without the second `self.pc += 1`
read_addr_adv1(m, oc) ==
    IF m.pc + 2 > SizeAsU16
    THEN Err(m, ErrReadAddr)
    ELSE Ok([m EXCEPT !.pc = m.pc + 1],
            RamGet(m.ram, m.pc + 1) * 256 + RamGet(m.ram, m.pc))

\* fn read_addr(&mut self)
read_addr(m, oc) ==
    IF m.pc + 2 >= U16 /\ oc
    THEN Panic(m)
    ELSE IF (m.pc + 2) % U16 > SizeAsU16
         THEN Err(m, ErrReadAddr)
         ELSE IF m.pc >= RamSize
              THEN Panic(m)
              ELSE LET low == RamGet(m.ram, m.pc)
                       pc1 == m.pc + 1
                   IN  IF pc1 >= RamSize
                       THEN Panic([m EXCEPT !.pc = pc1])
                       ELSE LET high == RamGet(m.ram, pc1)
                            IN  Ok([m EXCEPT !.pc = (pc1 + 1) % U16],
                                   high * 256 + low)

(***************************************************************************)
(* Register file (RegisterArray: Index<char>, Index<&str>, get_flag)       *)
(***************************************************************************)

\* self.reg["bc"], self.reg["de"], self.reg["hl"]: high byte first
RegPair(r, hi, lo) == r[hi] * 256 + r[lo]

\* self.reg["de"] = v
SetRegPair(r, hi, lo, v) == [r EXCEPT ![hi] = v \div 256, ![lo] = v % 256]

\* self.reg.get_flag(flag)
get_flag(m, flag) == m.flags[flag]

(***************************************************************************)
(* Accumulator group 0x80 ..= 0xBF (add, sub, and, xor, or)                *)
(***************************************************************************)

RECURSIVE Bitwise(_, _, _, _)
Bitwise(op, x, y, n) ==
    IF n = 0
    THEN 0
    ELSE LET bx == x % 2
             by == y % 2
             b  == CASE op = "and" -> IF bx = 1 /\ by = 1 THEN 1 ELSE 0
                    [] op = "or"  -> IF bx = 1 \/ by = 1 THEN 1 ELSE 0
                    [] OTHER      -> IF bx # by THEN 1 ELSE 0
         IN  b + 2 * Bitwise(op, x \div 2, y \div 2, n - 1)

RECURSIVE count_ones(_)
count_ones(x) == IF x = 0 THEN 0 ELSE (x % 2) + count_ones(x \div 2)

\* Z, S, P of an 8-bit result; carry and aux as given
ResultFlags(result, cy, ac) ==
    [zero   |-> result = 0,
     sign   |-> result >= 128,
     parity |-> count_ones(result) % 2 = 0,
     carry  |-> cy,
     aux    |-> ac]

\* operand selector, the low 3 bits of the opcode; 6 is the byte at (HL)
SelReg == <<"b", "c", "d", "e", "h", "l", "m", "a">>

Operand(m, opcode) ==
    LET s == SelReg[(opcode % 8) + 1]
    IN  IF s = "m"
        THEN LET hl == RegPair(m.reg, "h", "l")
             IN  IF hl >= RamSize THEN Panic(m) ELSE Ok(m, RamGet(m.ram, hl))
        ELSE Ok(m, m.reg[s])

Alu(m, result, cy, ac) ==
    Ok([m EXCEPT !.reg = [m.reg EXCEPT !["a"] = result],
                 !.flags = ResultFlags(result, cy, ac)], 0)

add(m, opcode, with_carry) ==
    LET o == Operand(m, opcode)
    IN  IF o.res # "ok"
        THEN o
        ELSE LET cin == IF with_carry /\ m.flags["carry"] THEN 1 ELSE 0
                 a   == m.reg["a"]
                 sum == a + o.val + cin
             IN  Alu(m, sum % 256, sum >= 256,
                     (a % 16) + (o.val % 16) + cin >= 16)

sub(m, opcode, with_carry) ==
    LET o == Operand(m, opcode)
    IN  IF o.res # "ok"
        THEN o
        ELSE LET cin == IF with_carry /\ m.flags["carry"] THEN 1 ELSE 0
                 a   == m.reg["a"]
             IN  Alu(m, (a - o.val - cin) % 256, a < o.val + cin,
                     (a % 16) < (o.val % 16) + cin)

and(m, opcode) ==
    LET o == Operand(m, opcode)
    IN  IF o.res # "ok"
        THEN o
        ELSE Alu(m, Bitwise("and", m.reg["a"], o.val, 8), FALSE,
                 ((m.reg["a"] \div 8) % 2 = 1) \/ ((o.val \div 8) % 2 = 1))

xor(m, opcode) ==
    LET o == Operand(m, opcode)
    IN  IF o.res # "ok"
        THEN o
        ELSE Alu(m, Bitwise("xor", m.reg["a"], o.val, 8), FALSE, FALSE)

or(m, opcode) ==
    LET o == Operand(m, opcode)
    IN  IF o.res # "ok"
        THEN o
        ELSE Alu(m, Bitwise("or", m.reg["a"], o.val, 8), FALSE, FALSE)

(***************************************************************************)
(* Decimal adjust                                                          *)
(***************************************************************************)

\* daa with the high nibble taken from the accumulator before the low
\* adjustment
daa_high_orig(m) ==
    LET a    == m.reg["a"]
        low0 == a % 16
        adj1 == low0 > 9 \/ get_flag(m, "aux")
        acc  == IF adj1 THEN (a + 6) % 256 ELSE a
        low  == IF adj1 THEN low0 + 6 ELSE low0
        hi0  == (a % 256) \div 16
        adj2 == hi0 > 9 \/ get_flag(m, "carry")
        high == IF adj2 THEN hi0 + 6 ELSE hi0
        result == (high % 16) * 16 + (low % 16)
    IN  Ok([m EXCEPT !.reg["a"] = result,
                     !.flags = [aux    |-> low > 15,
                                carry  |-> high > 15,
                                zero   |-> result = 0,
                                sign   |-> (result \div 128) % 2 = 1,
                                parity |-> count_ones(result) % 2 = 0]], 0)

\* daa whose low test is `low > 10`
daa_low_gt10(m) ==
    LET a    == m.reg["a"]
        low0 == a % 16
        adj1 == low0 > 10 \/ get_flag(m, "aux")
        acc  == IF adj1 THEN (a + 6) % 256 ELSE a
        low  == IF adj1 THEN low0 + 6 ELSE low0
        hi0  == (acc % 256) \div 16
        adj2 == hi0 > 9 \/ get_flag(m, "carry")
        high == IF adj2 THEN hi0 + 6 ELSE hi0
        result == (high % 16) * 16 + (low % 16)
    IN  Ok([m EXCEPT !.reg["a"] = result,
                     !.flags = [aux    |-> low > 15,
                                carry  |-> high > 15,
                                zero   |-> result = 0,
                                sign   |-> (result \div 128) % 2 = 1,
                                parity |-> count_ones(result) % 2 = 0]], 0)

\* daa: acc, low and high are u8; low and high stay below 22, so only the
\* wrapping_add can wrap
daa(m) ==
    LET a    == m.reg["a"]
        low0 == a % 16
        adj1 == low0 > 9 \/ get_flag(m, "aux")
        acc  == IF adj1 THEN (a + 6) % 256 ELSE a
        low  == IF adj1 THEN low0 + 6 ELSE low0
        hi0  == (acc % 256) \div 16
        adj2 == hi0 > 9 \/ get_flag(m, "carry")
        high == IF adj2 THEN hi0 + 6 ELSE hi0
        result == (high % 16) * 16 + (low % 16)
    IN  Ok([m EXCEPT !.reg["a"] = result,
                     !.flags = [aux    |-> low > 15,
                                carry  |-> high > 15,
                                zero   |-> result = 0,
                                sign   |-> (result \div 128) % 2 = 1,
                                parity |-> count_ones(result) % 2 = 0]], 0)

(***************************************************************************)
(* Jumps, calls, returns                                                   *)
(***************************************************************************)

\* `self.pc += 2`: aborts on overflow with overflow checks, wraps without
SkipAddr(m, oc) ==
    IF m.pc + 2 >= U16 /\ oc
    THEN Panic(m)
    ELSE Ok([m EXCEPT !.pc = (m.pc + 2) % U16], 0)

\* `self.pc = self.read_addr()?`
JumpImm(m, oc) ==
    LET r == read_addr(m, oc)
    IN  IF r.res # "ok" THEN r ELSE Ok([r.m EXCEPT !.pc = r.val], 0)

\* jmp_not without `self.pc += 2` in the else branch
jmp_not_noskip(m, flag, oc) ==
    IF ~get_flag(m, flag) THEN JumpImm(m, oc) ELSE Ok(m, 0)

jmp_not(m, flag, oc) ==
    IF ~get_flag(m, flag) THEN JumpImm(m, oc) ELSE SkipAddr(m, oc)

jmp_if(m, flag, oc) ==
    IF get_flag(m, flag) THEN JumpImm(m, oc) ELSE SkipAddr(m, oc)

call_imm(m, oc) ==
    LET r == read_addr(m, oc)
    IN  IF r.res # "ok"
        THEN r
        ELSE LET p == push(r.m, r.m.pc)
             IN  IF p.res # "ok" THEN p ELSE Ok([p.m EXCEPT !.pc = r.val], 0)

call_not(m, flag, oc) ==
    IF ~get_flag(m, flag) THEN call_imm(m, oc) ELSE SkipAddr(m, oc)

call_if(m, flag, oc) ==
    IF get_flag(m, flag) THEN call_imm(m, oc) ELSE SkipAddr(m, oc)

\* call pushing the return address of a 3-byte instruction
call_len3(m, adr) ==
    LET p == push(m, (m.pc + 2) % U16)
    IN  IF p.res # "ok" THEN p ELSE Ok([p.m EXCEPT !.pc = adr], 0)

call(m, adr) ==
    LET p == push(m, m.pc)
    IN  IF p.res # "ok" THEN p ELSE Ok([p.m EXCEPT !.pc = adr], 0)

\* ret returning Ok without writing pc
ret_nopc(m, oc) ==
    LET r == pop(m, oc)
    IN  IF r.res # "ok" THEN r ELSE Ok(r.m, 0)

ret(m, oc) ==
    LET r == pop(m, oc)
    IN  IF r.res # "ok" THEN r ELSE Ok([r.m EXCEPT !.pc = r.val], 0)

\* ret_if that returns whatever the flag
ret_if_always(m, flag, oc) == ret(m, oc)

ret_if(m, flag, oc) ==
    IF get_flag(m, flag) THEN ret(m, oc) ELSE Ok(m, 0)

ret_not(m, flag, oc) ==
    IF ~get_flag(m, flag) THEN ret(m, oc) ELSE Ok(m, 0)

\* push_reg reading the pair low byte first
push_reg_swapped(m, hi, lo) == push(m, RegPair(m.reg, lo, hi))

push_reg(m, hi, lo) == push(m, RegPair(m.reg, hi, lo))

\* 0xd1: `self.reg["de"] = self.pop()?`
pop_de(m, oc) ==
    LET r == pop(m, oc)
    IN  IF r.res # "ok"
        THEN r
        ELSE Ok([r.m EXCEPT !.reg = SetRegPair(r.m.reg, "d", "e", r.val)], 0)

(***************************************************************************)
(* execute_next                                                            *)
(***************************************************************************)

\* the arms of `match opcode`, in source order; m is the state after
\* `self.pc += 1`
Dispatch(m, opcode, oc) ==
    CASE opcode \in \h80 .. \h87 -> add(m, opcode, FALSE)
      [] opcode \in \h88 .. \h8F -> add(m, opcode, TRUE)
      [] opcode \in \h90 .. \h97 -> sub(m, opcode, FALSE)
      [] opcode \in \h98 .. \h9F -> sub(m, opcode, TRUE)
      [] opcode \in \hA0 .. \hA7 -> and(m, opcode)
      [] opcode \in \hA8 .. \hAF -> xor(m, opcode)
      [] opcode \in \hB0 .. \hB7 -> or(m, opcode)
      [] opcode = \hc0 -> ret_not(m, "zero", oc)
      [] opcode = \hc1 -> Panic(m)
      [] opcode = \hc2 -> jmp_not(m, "zero", oc)
      [] opcode = \hc3 -> JumpImm(m, oc)
      [] opcode = \hc4 -> Panic(m)
      [] opcode = \hc5 -> push_reg(m, "b", "c")
      [] opcode = \hc6 -> Panic(m)
      [] opcode = \hc7 -> call(m, \h0)
      [] opcode = \hc8 -> ret_if(m, "zero", oc)
      [] opcode = \hc9 -> ret(m, oc)
      [] opcode = \hca -> jmp_if(m, "zero", oc)
      [] opcode = \hcc -> call_if(m, "zero", oc)
      [] opcode = \hcd -> call_imm(m, oc)
      [] opcode = \hce -> Panic(m)
      [] opcode = \hcf -> call(m, \h8)
      [] opcode = \hd0 -> ret_not(m, "carry", oc)
      [] opcode = \hd1 -> pop_de(m, oc)
      [] opcode = \hd2 -> jmp_not(m, "carry", oc)
      [] opcode = \hd3 -> Panic(m)
      [] opcode = \hd4 -> call_not(m, "carry", oc)
      [] opcode = \hd5 -> push_reg(m, "d", "e")
      [] opcode = \hd6 -> Panic(m)
      [] opcode = \hd7 -> call(m, \h10)
      [] opcode = \hd8 -> ret_if(m, "carry", oc)
      [] opcode = \hd9 -> Panic(m)
      [] opcode = \hda -> jmp_if(m, "carry", oc)
      [] opcode = \hdb -> Panic(m)
      [] opcode = \hdc -> call_if(m, "carry", oc)
      [] opcode = \hdd -> Panic(m)
      [] opcode = \hde -> Panic(m)
      [] opcode = \hdf -> call(m, \h18)
      [] opcode = \he0 -> ret_not(m, "parity", oc)
      [] opcode = \he1 -> Panic(m)
      [] opcode = \he2 -> jmp_not(m, "parity", oc)
      [] opcode = \he3 -> Panic(m)
      [] opcode = \he4 -> call_not(m, "parity", oc)
      [] opcode = \he5 -> Panic(m)
      [] opcode = \he6 -> Panic(m)
      [] opcode = \he7 -> call(m, \h20)
      [] opcode = \he8 -> ret_if(m, "parity", oc)
      [] opcode = \he9 -> Panic(m)
      [] opcode = \hea -> jmp_if(m, "parity", oc)
      [] opcode = \heb -> Panic(m)
      [] opcode = \hec -> call_if(m, "parity", oc)
      [] opcode = \hed -> Panic(m)
      [] opcode = \hee -> Panic(m)
      [] opcode = \hef -> call(m, \h28)
      [] opcode = \hf0 -> ret_not(m, "sign", oc)
      [] opcode = \hf1 -> Panic(m)
      [] opcode = \hf2 -> jmp_not(m, "sign", oc)
      [] opcode = \hf3 -> Panic(m)
      [] opcode = \hf4 -> call_not(m, "sign", oc)
      [] opcode = \hf5 -> Panic(m)
      [] opcode = \hf6 -> Panic(m)
      [] opcode = \hf7 -> call(m, \h30)
      [] opcode = \hf8 -> ret_if(m, "sign", oc)
      [] opcode = \hf9 -> Panic(m)
      [] opcode = \hfa -> jmp_if(m, "sign", oc)
      [] opcode = \hfb -> Panic(m)
      [] opcode = \hfc -> call_if(m, "sign", oc)
      [] opcode = \hfd -> Panic(m)
      [] opcode = \hfe -> Panic(m)
      [] opcode = \hff -> call(m, \h38)
      [] OTHER -> Panic(m)

\* pub fn execute_next(&mut self): `self.ram[self.pc]` aborts on an index
\* outside the RAM; `self.pc += 1` is a u16 addition
execute_next(m, oc) ==
    IF m.pc >= RamSize
    THEN Panic(m)
    ELSE LET opcode == RamGet(m.ram, m.pc)
         IN  IF m.pc + 1 >= U16 /\ oc
             THEN Panic(m)
             ELSE Dispatch([m EXCEPT !.pc = (m.pc + 1) % U16], opcode, oc)

(***************************************************************************)
(* The state machine                                                       *)
(***************************************************************************)

Machine == [pc |-> pc, sp |-> sp, ram |-> ram, reg |-> reg, flags |-> flags]

\* Emulator::new(): pc = 0, sp = 0, zeroed RAM and registers
new ==
    [pc |-> 0, sp |-> 0, ram |-> << >>,
     reg |-> [r \in {"a", "b", "c", "d", "e", "h", "l"} |-> 0],
     flags |-> [f \in Flags |-> FALSE]]

\* the opcode a step at machine state m fetches (-1: none, pc outside RAM)
Fetched(m) == IF m.pc < RamSize THEN RamGet(m.ram, m.pc) ELSE -1

\* --- history kept for the properties: last and prev describe the two most
\* recent steps (opcode fetched, result, machine state before the step);
\* calls is the list of calls that have not returned yet, innermost last,
\* each with the return address it stored on the stack, the sp it started
\* from and the number of the step that made it ---

\* the 8080 condition field, bits 5..3 of the opcode: NZ Z NC C PO PE P M
CondFlag(op) ==
    <<"zero", "zero", "carry", "carry", "parity", "parity", "sign", "sign">>
        [((op \div 8) % 8) + 1]

CondHolds(op, fl) == fl[CondFlag(op)] = (((op \div 8) % 2) = 1)

JccOps == {\hc2, \hca, \hd2, \hda, \he2, \hea, \hf2, \hfa}

CccOps == {\hc4, \hcc, \hd4, \hdc, \he4, \hec, \hf4, \hfc}

RccOps == {\hc0, \hc8, \hd0, \hd8, \he0, \he8, \hf0, \hf8}

RstOps == {\hc7, \hcf, \hd7, \hdf, \he7, \hef, \hf7, \hff}

PushOps == {\hc5, \hd5}

NoMatch == [depth |-> 0, ret |-> 0, sp |-> 0, at |-> 0]

\* the step from m with result res was a CALL, an RST or a taken Ccc
Called(m, res) ==
    /\ res = "ok"
    /\ \/ Fetched(m) \in {\hcd} \cup RstOps
       \/ Fetched(m) \in CccOps /\ CondHolds(Fetched(m), m.flags)

\* the step from m with result res was a RET or a taken Rcc
Returned(m, res) ==
    /\ res = "ok"
    /\ \/ Fetched(m) = \hc9
       \/ Fetched(m) \in RccOps /\ CondHolds(Fetched(m), m.flags)

CallsAfter(cs, step, m, res, n) ==
    IF Called(m, res)
    THEN Append(cs, [depth |-> Len(cs) + 1,
                     ret |-> 256 * RamGet(n.ram, m.sp - 1)
                               + RamGet(n.ram, m.sp - 2),
                     sp |-> m.sp,
                     at |-> step])
    ELSE IF Returned(m, res)
         THEN IF cs = << >> THEN cs ELSE SubSeq(cs, 1, Len(cs) - 1)
         ELSE IF res = "ok" /\ Fetched(m) \in PushOps \cup {\hd1}
              THEN << >>
              ELSE cs

\* the call a returning step returns from
MatchedCall(cs, m, res, n) ==
    IF Returned(m, res) /\ cs # << >> THEN cs[Len(cs)] ELSE NoMatch

NoStep ==
    [fn |-> "none", op |-> -1, res |-> "none", m |-> new, matched |-> NoMatch]

\* --- initial states: new() followed by the set-up the tests perform
\* (e.sp = .., e.pc = .., e.reg.set_flag(..), e.ram.load_vec(..)) ---

PcVals == {0, RamSize - 3, RamSize - 2, RamSize - 1}

\* sp = 0 after new() and only push and pop change it, so it never leaves
\* 0 .. RamSize
SpVals == {0, 1, 2, 3, 8192, RamSize - 2, RamSize - 1, RamSize}

\* no flag, one flag, or every flag set
FlagVals ==
    {[f \in Flags |-> f \in S] :
        S \in {T \in SUBSET Flags : Cardinality(T) \in {0, 1, 5}}}

\* every opcode with a handler outside the accumulator group, and some
\* without one
OpVals ==
    {\hc0, \hc2, \hc3, \hc5, \hc7, \hc8, \hc9, \hca, \hcc, \hcd, \hcf,
     \hd0, \hd1, \hd2, \hd4, \hd5, \hd7, \hd8, \hda, \hdc, \hdf,
     \he0, \he2, \he4, \he7, \he8, \hea, \hec, \hef,
     \hf0, \hf2, \hf4, \hf7, \hf8, \hfa, \hfc, \hff,
     \h00, \h27, \h76, \hc1, \hc4, \hc6, \hd3}

\* the two bytes after the opcode: the address of the byte after them, or
\* bytes that are themselves POP D / RET
OperandVals(p) ==
    {<<(p + 3) % 256, (p + 3) \div 256>>, <<\hd1, \h00>>, <<\hc9, \h3f>>}

BcVals == {\habcd, \h00ff}

\* the part of bytes that load_vec can place at offset without leaving RAM
Fit(bytes, offset) ==
    SubSeq(bytes, 1, IF offset + Len(bytes) <= RamSize
                     THEN Len(bytes)
                     ELSE IF offset >= RamSize THEN 0 ELSE RamSize - offset)

Init ==
    \E p \in PcVals, s \in SpVals, fl \in FlagVals, op \in OpVals,
       bc \in BcVals :
      \E operand \in OperandVals(p) :
        LET stack == load_vec(new.ram, Fit(<<\h34, \h12>>, s), s)
            prog  == <<op>> \o operand \o <<\hc9>>
        IN  /\ pc = p
            /\ sp = s
            /\ ram = load_vec(stack, Fit(prog, p), p)
            /\ reg = SetRegPair(SetRegPair(new.reg, "b", "c", bc),
                                "d", "e", \h1234)
            /\ flags = fl
            /\ status = "running"
            /\ steps = 0
            /\ last = NoStep
            /\ prev = NoStep
            /\ calls = << >>

\* One call of execute_next by the host.  A panic ends the process: the
\* emulator is gone and nothing of the step is observable.
ExecuteNext ==
    /\ status = "running"
    /\ steps < MaxSteps
    /\ \E oc \in BOOLEAN :
         LET m == Machine
             r == execute_next(m, oc)
             n == IF r.res = "panic" THEN m ELSE r.m
         IN  /\ pc' = n.pc
             /\ sp' = n.sp
             /\ ram' = n.ram
             /\ reg' = n.reg
             /\ flags' = n.flags
             /\ status' = IF r.res = "panic" THEN "aborted" ELSE "running"
             /\ steps' = steps + 1
             /\ last' = [fn |-> "execute_next", op |-> Fetched(m),
                         res |-> r.res, m |-> m,
                         matched |-> MatchedCall(calls, m, r.res, n)]
             /\ prev' = last
             /\ calls' = CallsAfter(calls, steps + 1, m, r.res, n)

Next == ExecuteNext

Spec == Init /\ [][Next]_vars

\* --- nested subroutines: a caller at 0x100 and routines at 0x08, 0x10 and
\* 0x18; each level is a CALL, an RST or a CC to the next routine, or a
\* RET, and is followed by a RET ---

LevelCode(kind, target) ==
    CASE kind = "call" -> <<\hcd, target % 256, target \div 256>>
      [] kind = "rst"  -> <<\hc7 + target>>
      [] kind = "cc"   -> <<\hdc, target % 256, target \div 256>>
      [] OTHER         -> <<\hc9>>

NestSpVals == {3, 4, 5, 6, 512, RamSize - 1, RamSize}

InitNest ==
    \E k1 \in {"call", "rst", "cc"},
       k2 \in {"call", "rst", "cc", "ret"},
       k3 \in {"call", "rst", "cc", "ret"},
       s \in NestSpVals, cy \in BOOLEAN :
      LET r0 == load_vec(new.ram, LevelCode(k1, \h08) \o <<\hc9>>, \h100)
          r1 == load_vec(r0, LevelCode(k2, \h10) \o <<\hc9>>, \h08)
          r2 == load_vec(r1, LevelCode(k3, \h18) \o <<\hc9>>, \h10)
      IN  /\ pc = \h100
          /\ sp = s
          /\ ram = load_vec(r2, <<\hc9>>, \h18)
          /\ reg = new.reg
          /\ flags = [new.flags EXCEPT !["carry"] = cy]
          /\ status = "running"
          /\ steps = 0
          /\ last = NoStep
          /\ prev = NoStep
          /\ calls = << >>

SpecNest == InitNest /\ [][Next]_vars

\* --- decimal adjust: the accumulator and the two carries are the inputs
\* of daa; DAA (0x27) is the program, as in special.rs tests::daa ---

InitDaa ==
    \E a \in 0 .. 255, ac \in BOOLEAN, cy \in BOOLEAN :
        /\ pc = 0
        /\ sp = 0
        /\ ram = load_vec(new.ram, <<\h27>>, 0)
        /\ reg = [new.reg EXCEPT !["a"] = a]
        /\ flags = [new.flags EXCEPT !["aux"] = ac, !["carry"] = cy]
        /\ status = "running"
        /\ steps = 0
        /\ last = NoStep
        /\ prev = NoStep
        /\ calls = << >>

\* One call of the public daa by the host
Daa ==
    /\ status = "running"
    /\ steps < MaxSteps
    /\ LET m == Machine
           r == daa(m)
       IN  /\ pc' = r.m.pc
           /\ sp' = r.m.sp
           /\ ram' = r.m.ram
           /\ reg' = r.m.reg
           /\ flags' = r.m.flags
           /\ status' = "running"
           /\ steps' = steps + 1
           /\ last' = [fn |-> "daa", op |-> -1, res |-> r.res, m |-> m,
                       matched |-> NoMatch]
           /\ prev' = last
           /\ calls' = calls

NextDaa == Daa \/ ExecuteNext

SpecDaa == InitDaa /\ [][NextDaa]_vars

(***************************************************************************)
(* Vocabulary of the properties                                            *)
(***************************************************************************)

\* the last step ran to the end of execute_next and returned Ok(())
StepOk == steps >= 1 /\ last.res = "ok"

\* address of the opcode the last step fetched, and sp before that step
P == last.m.pc

S == last.m.sp

\* the register pair PUSH B / PUSH D pushes, read in machine state m
PushedPair(m, op) ==
    IF op = \hc5 THEN RegPair(m.reg, "b", "c") ELSE RegPair(m.reg, "d", "e")

\* the 16-bit little-endian operand of the instruction at address p
OperandIn(m, p) == 256 * RamGet(m.ram, p + 2) + RamGet(m.ram, p + 1)

\* the instruction at p has both operand bytes inside the RAM
OperandInRam(p) == p + 3 <= RamSize

\* memories r1 and r2 agree on every cell outside the set except
SameRamExcept(r1, r2, except) ==
    \A a \in ((DOMAIN r1) \cup (DOMAIN r2)) \ except :
        RamGet(r1, a) = RamGet(r2, a)

C2_CallRetRoundTrip ==
    (/\ steps >= 2
     /\ prev.op = \hcd
     /\ prev.res = "ok"
     /\ last.op = \hc9)
    => /\ last.m.pc = OperandIn(prev.m, prev.m.pc)
       /\ last.res = "ok"
       /\ pc = prev.m.pc + 3
       /\ sp = prev.m.sp

C2_Witness ==
    /\ steps >= 2
    /\ prev.op = \hcd
    /\ prev.res = "ok"
    /\ last.op = \hc9
    /\ last.res = "ok"
    /\ last.m.sp = prev.m.sp - 2
    /\ pc = prev.m.pc + 3
    /\ sp = prev.m.sp

(***************************************************************************)
(* C3: every successful stack push of a 16-bit value v at stack pointer s  *)
(* (PUSH rp, CALL, a taken Ccc, RST) writes the high byte of v to mem[s-1] *)
(* and the low byte to mem[s-2], leaves SP = s-2 and changes no other      *)
(* memory cell; CALL pushes the address of the instruction after the       *)
(* 3-byte CALL.                                                            *)
(***************************************************************************)
\* the last step is an instruction that pushes
IsPushStep ==
    /\ steps >= 1
    /\ \/ last.op \in PushOps
       \/ last.op \in RstOps
       \/ last.op = \hcd
       \/ last.op \in CccOps /\ CondHolds(last.op, last.m.flags)

\* the value the 8080 pushes in that instruction
PushValue ==
    CASE last.op \in PushOps -> PushedPair(last.m, last.op)
      [] last.op \in RstOps  -> P + 1
      [] OTHER               -> P + 3

C3_PushLayout ==
    (IsPushStep /\ last.res = "ok")
    => /\ sp = S - 2
       /\ RamGet(ram, S - 1) = PushValue \div 256
       /\ RamGet(ram, S - 2) = PushValue % 256
       /\ SameRamExcept(ram, last.m.ram, {S - 1, S - 2})

C3_Witness ==
    /\ IsPushStep
    /\ last.res = "ok"
    /\ last.op = \hcd
    /\ S = RamSize
    /\ P = RamSize - 3
    /\ RamGet(ram, RamSize - 1) = \h40
    /\ RamGet(ram, RamSize - 2) = \h00
    /\ sp = RamSize - 2

(***************************************************************************)
(* C4: RST n is equivalent to CALL (8*n) for n in 0..7: executing opcode   *)
(* 0xC7 + 8*n at p with SP >= 2 sets PC to 8*n, pushes p + 1 (the address  *)
(* of the following instruction) and decreases SP by 2, as CALL 8*n does   *)
(* apart from the instruction length.                                      *)
(***************************************************************************)
\* what CALL (8*n) does when it is the instruction at P in the state the
\* last step started from
CallTo(target) ==
    call_imm([last.m EXCEPT
                 !.pc = P + 1,
                 !.ram = load_vec(last.m.ram, <<target % 256, target \div 256>>,
                                  P + 1)], FALSE)

C4_RstIsCall ==
    (steps >= 1 /\ last.op \in RstOps /\ S >= 2)
    => LET n == (last.op - \hc7) \div 8
           c == CallTo(8 * n)
       IN  /\ last.res = "ok"
           /\ pc = 8 * n
           /\ sp = S - 2
           /\ RamGet(ram, S - 1) = (P + 1) \div 256
           /\ RamGet(ram, S - 2) = (P + 1) % 256
           /\ SameRamExcept(ram, last.m.ram, {S - 1, S - 2})
           /\ OperandInRam(P) =>
                /\ c.res = "ok"
                /\ c.m.pc = pc
                /\ c.m.sp = sp
                /\ c.m.reg = reg /\ c.m.flags = flags
                /\ RamGet(c.m.ram, S - 1) = (P + 3) \div 256
                /\ RamGet(c.m.ram, S - 2) = (P + 3) % 256
                /\ SameRamExcept(c.m.ram, ram, {S - 1, S - 2, P + 1, P + 2})

C4_Witness ==
    /\ steps >= 1
    /\ last.op = \hff
    /\ last.res = "ok"
    /\ S = 2
    /\ P = RamSize - 3
    /\ pc = \h38
    /\ sp = 0

(***************************************************************************)
(* C5: for each conditional jump (JNZ, JZ, JNC, JC, JPO, JPE, JP, JM) at   *)
(* address p whose two operand bytes lie in memory: with its condition     *)
(* false PC becomes p + 3, with its condition true PC becomes the          *)
(* little-endian address stored at p+1, p+2; SP, memory and flags are      *)
(* unchanged in both cases.                                                *)
(***************************************************************************)
C5_CondJump ==
    (steps >= 1 /\ last.op \in JccOps)
    => /\ sp = S /\ ram = last.m.ram /\ flags = last.m.flags
       /\ ~CondHolds(last.op, last.m.flags)
            => last.res = "ok" /\ pc = P + 3
       /\ (CondHolds(last.op, last.m.flags) /\ OperandInRam(P))
            => last.res = "ok" /\ pc = OperandIn(last.m, P)

C5_Witness ==
    /\ steps >= 1
    /\ last.op = \hea
    /\ last.m.flags = [f \in Flags |-> f = "parity"]
    /\ P = RamSize - 3
    /\ last.res = "ok"
    /\ pc = \h3fc9

(***************************************************************************)
(* C6: for each conditional call (CNZ, CZ, CNC, CC, CPO, CPE, CP, CM)      *)
(* executed by a step at p: when the condition holds it behaves as CALL    *)
(* (pushes p + 3, SP decreases by 2, PC becomes the operand address);      *)
(* otherwise PC becomes p + 3 and SP and memory are unchanged.             *)
(***************************************************************************)
C6_CondCall ==
    (steps >= 1 /\ last.op \in CccOps /\ OperandInRam(P))
    => IF CondHolds(last.op, last.m.flags)
       THEN S >= 2 =>
              /\ last.res = "ok"
              /\ pc = OperandIn(last.m, P)
              /\ sp = S - 2
              /\ RamGet(ram, S - 1) = (P + 3) \div 256
              /\ RamGet(ram, S - 2) = (P + 3) % 256
       ELSE /\ last.res = "ok"
            /\ pc = P + 3
            /\ sp = S
            /\ ram = last.m.ram

(***************************************************************************)
(* C7: RET, and each Rcc whose condition holds, with the two bytes at SP   *)
(* and SP+1 in memory, writes PC from the popped value (low byte at        *)
(* mem[SP], high byte at mem[SP+1]) and increases SP by 2; an Rcc whose    *)
(* condition does not hold leaves SP and memory unchanged and PC just      *)
(* after the 1-byte opcode.                                                *)
(***************************************************************************)
RetTaken ==
    /\ steps >= 1
    /\ \/ last.op = \hc9
       \/ last.op \in RccOps /\ CondHolds(last.op, last.m.flags)

C7_Returns ==
    /\ (RetTaken /\ S + 2 <= RamSize)
         => /\ last.res = "ok"
            /\ pc = 256 * RamGet(last.m.ram, S + 1) + RamGet(last.m.ram, S)
            /\ sp = S + 2
    /\ (steps >= 1 /\ last.op \in RccOps
          /\ ~CondHolds(last.op, last.m.flags))
         => /\ last.res = "ok"
            /\ pc = P + 1
            /\ sp = S
            /\ ram = last.m.ram

C7_Witness ==
    /\ RetTaken
    /\ last.op = \hf8
    /\ S = RamSize - 2
    /\ last.res = "ok"
    /\ pc = \h1234
    /\ sp = RamSize

(***************************************************************************)
(* C8: an unconditional JMP a (0xC3) that succeeds leaves PC = a and SP,   *)
(* memory, registers and flags unchanged.                                  *)
(***************************************************************************)
C8_Jmp ==
    (StepOk /\ last.op = \hc3)
    => /\ pc = OperandIn(last.m, P)
       /\ sp = S
       /\ ram = last.m.ram
       /\ reg = last.m.reg
       /\ flags = last.m.flags

C8_Witness ==
    /\ StepOk
    /\ last.op = \hc3
    /\ P = RamSize - 3
    /\ pc = \h3fc9
    /\ sp = S

(***************************************************************************)
(* C9: a push attempted with SP < 2 fails with the stack-overflow error    *)
(* and leaves SP and every memory cell unchanged; a push with SP >= 2      *)
(* never returns that error.                                               *)
(***************************************************************************)
\* the last step reached a call of push
PushCalled ==
    /\ steps >= 1
    /\ \/ last.op \in PushOps
       \/ last.op \in RstOps
       \/ /\ OperandInRam(P)
          /\ \/ last.op = \hcd
             \/ /\ last.op \in CccOps \ {\hc4}
                /\ CondHolds(last.op, last.m.flags)

C9_PushOverflow ==
    /\ (PushCalled /\ S < 2)
         => last.res = ErrPush /\ sp = S /\ ram = last.m.ram
    /\ (steps >= 1 /\ S >= 2) => last.res # ErrPush

C9_Witness ==
    /\ PushCalled
    /\ last.op = \hdc
    /\ S = 1
    /\ last.res = ErrPush
    /\ sp = 1
    /\ ram = last.m.ram

(***************************************************************************)
(* C10: a pop fails with the stack-underflow error exactly when the two    *)
(* bytes at SP and SP+1 would exceed the memory bound (SP + 2 greater than *)
(* the memory size); on that failure SP, memory and registers are          *)
(* unchanged and PC is where pop found it; for every other SP the pop      *)
(* succeeds.                                                               *)
(***************************************************************************)
\* the last step reached a call of pop
PopCalled == RetTaken \/ (steps >= 1 /\ last.op = \hd1)

C10_PopUnderflow ==
    /\ PopCalled =>
         /\ (last.res = ErrPop) <=> (S + 2 > RamSize)
         /\ (last.res # ErrPop) => last.res = "ok"
         /\ (last.res = ErrPop) =>
              /\ sp = S
              /\ pc = P + 1
              /\ ram = last.m.ram
              /\ reg = last.m.reg
              /\ flags = last.m.flags
    /\ (steps >= 1 /\ last.res = ErrPop) => PopCalled

C10_Witness ==
    /\ PopCalled
    /\ last.op = \hd1
    /\ S = RamSize - 1
    /\ last.res = ErrPop
    /\ sp = RamSize - 1
    /\ reg = last.m.reg

(***************************************************************************)
(* C11: read_addr returns the 16-bit little-endian immediate (low byte at  *)
(* PC, high byte at PC+1) and advances PC by exactly 2 whenever both       *)
(* operand bytes lie within memory; when the read would go past the last   *)
(* byte it fails with the fetch-out-of-range error and leaves PC           *)
(* unchanged.                                                              *)
(***************************************************************************)
\* the last step reached a call of read_addr, with pc = P + 1
ReadAddrCalled ==
    /\ steps >= 1
    /\ \/ last.op \in {\hc3, \hcd}
       \/ /\ last.op \in JccOps \cup (CccOps \ {\hc4})
          /\ CondHolds(last.op, last.m.flags)

IsCallOp(op) == op = \hcd \/ op \in CccOps

C11_ReadAddr ==
    ReadAddrCalled =>
      /\ (last.res = ErrReadAddr) <=> ~OperandInRam(P)
      /\ (last.res = ErrReadAddr) =>
           /\ pc = P + 1
           /\ sp = S /\ ram = last.m.ram
           /\ reg = last.m.reg /\ flags = last.m.flags
      /\ (OperandInRam(P) /\ ~IsCallOp(last.op)) =>
           last.res = "ok" /\ pc = OperandIn(last.m, P)
      /\ (OperandInRam(P) /\ IsCallOp(last.op)) =>
           /\ last.res \in {"ok", ErrPush}
           /\ last.res = ErrPush => pc = P + 3
           /\ last.res = "ok" =>
                /\ pc = OperandIn(last.m, P)
                /\ 256 * RamGet(ram, S - 1) + RamGet(ram, S - 2) = P + 3

C11_Witness ==
    /\ ReadAddrCalled
    /\ last.op = \hcd
    /\ P = 0
    /\ S = 1
    /\ last.res = ErrPush
    /\ pc = 3

(***************************************************************************)
(* C17 (as amended): read_addr's strict `>` bound check allows fetching    *)
(* the last two bytes of memory: with PC = memory size - 2 read_addr, and  *)
(* hence JMP and a taken Jcc, succeeds and yields the address stored in    *)
(* the last two bytes; it fails with the fetch-out-of-range error only     *)
(* from PC = memory size - 1 on.                                           *)
(***************************************************************************)
C17_LastTwoBytesReadable ==
    /\ (ReadAddrCalled /\ P + 1 = RamSize - 2) =>
         /\ last.res # ErrReadAddr
         /\ ~IsCallOp(last.op) =>
              /\ last.res = "ok"
              /\ pc = 256 * RamGet(last.m.ram, RamSize - 1)
                        + RamGet(last.m.ram, RamSize - 2)
    /\ (ReadAddrCalled /\ P + 1 >= RamSize - 1) => last.res = ErrReadAddr

C17_Witness ==
    /\ ReadAddrCalled
    /\ last.op = \hda
    /\ P + 1 = RamSize - 2
    /\ last.res = "ok"
    /\ pc = \h3fc9

\* C17 as stated: with PC = memory size - 2 read_addr (and hence JMP, a
\* taken Jcc, CALL, a taken Ccc) fails with the fetch-out-of-range error
C17_Original ==
    (ReadAddrCalled /\ P + 1 = RamSize - 2) => last.res = ErrReadAddr

(***************************************************************************)
(* C12: when a step decodes an opcode that has no handler (0xC1, 0xC4,     *)
(* 0xC6, 0xD3, 0x76, 0x00, any opcode below 0x80), the step returns an     *)
(* unimplemented-opcode error value to the host; it never aborts the       *)
(* emulator.                                                               *)
(***************************************************************************)
NoHandlerOps == (0 .. \h7f) \cup {\hc1, \hc4, \hc6, \hd3}

C12_UnimplementedIsError ==
    (steps >= 1 /\ last.op \in NoHandlerOps)
    => /\ status = "running"
       /\ last.res \notin {"ok", "panic"}

(***************************************************************************)
(* C13: whenever a step returns an error (fetch-out-of-range, stack        *)
(* overflow, stack underflow), SP and memory equal their values before the *)
(* step and PC has advanced at most past the opcode byte, never past       *)
(* operand bytes; a CALL or taken Ccc that fails with stack overflow has   *)
(* not consumed its 2-byte address.                                        *)
(***************************************************************************)
C13_FailsCleanly ==
    (steps >= 1 /\ last.res \in {ErrReadAddr, ErrPush, ErrPop})
    => /\ sp = S
       /\ ram = last.m.ram
       /\ pc \in {P, P + 1}

(***************************************************************************)
(* C14 (as amended): with SP = 0x3FFF and BC = 0xABCD, PUSH BC (0xC5)      *)
(* leaves SP = 0x3FFD, mem[0x3FFD] = 0xCD and mem[0x3FFE] = 0xAB; a        *)
(* following POP DE (0xD1) leaves DE = 0xABCD and SP = 0x3FFF.             *)
(***************************************************************************)
\* the last step was PUSH BC with SP = 0x3FFF and BC = 0xABCD
PushedAbcd(st) ==
    /\ st.op = \hc5
    /\ st.m.sp = \h3fff
    /\ RegPair(st.m.reg, "b", "c") = \habcd

C14_PushBcPopDe ==
    /\ (steps >= 1 /\ PushedAbcd(last))
         => /\ last.res = "ok"
            /\ sp = \h3ffd
            /\ RamGet(ram, \h3ffd) = \hcd
            /\ RamGet(ram, \h3ffe) = \hab
    /\ (steps >= 2 /\ PushedAbcd(prev) /\ last.op = \hd1)
         => /\ last.res = "ok"
            /\ RegPair(reg, "d", "e") = \habcd
            /\ sp = \h3fff

C14_Witness ==
    /\ steps >= 2
    /\ PushedAbcd(prev)
    /\ last.op = \hd1
    /\ last.res = "ok"
    /\ RamGet(ram, \h3ffd) = \hcd
    /\ RamGet(ram, \h3ffe) = \hab
    /\ RegPair(reg, "d", "e") = \habcd
    /\ sp = \h3fff

\* C14 as stated: mem[0x3FFD] = 0xAB and mem[0x3FFE] = 0xCD after PUSH BC
C14_Original ==
    /\ (steps >= 1 /\ PushedAbcd(last))
         => /\ sp = \h3ffd
            /\ RamGet(ram, \h3ffd) = \hab
            /\ RamGet(ram, \h3ffe) = \hcd
    /\ (steps >= 2 /\ PushedAbcd(prev) /\ last.op = \hd1)
         => /\ RegPair(reg, "d", "e") = \habcd
            /\ sp = \h3fff

(***************************************************************************)
(* C18: starting from any state with SP <= memory size N, after any        *)
(* sequence of steps (successful or failed) SP stays within 0..N; every    *)
(* successful step changes SP by exactly -2 (PUSH, CALL, taken Ccc, RST),  *)
(* +2 (POP, RET, taken Rcc) or 0 (every other instruction); and no push or *)
(* pop ever accesses a stack address outside 0..N-1.                       *)
(***************************************************************************)
C18_SpRange ==
    /\ sp \in 0 .. RamSize
    /\ StepOk =>
         sp - S = (IF IsPushStep THEN -2 ELSE IF PopCalled THEN 2 ELSE 0)
    /\ (PushCalled \/ PopCalled) => last.res # "panic"
    /\ (StepOk /\ IsPushStep) => (S - 2 >= 0 /\ S - 1 <= RamSize - 1)
    /\ (StepOk /\ PopCalled) => (S >= 0 /\ S + 1 <= RamSize - 1)

C18_Witness ==
    /\ steps >= 2
    /\ prev.res = "ok"
    /\ prev.m.sp = RamSize
    /\ last.m.sp = RamSize - 2
    /\ StepOk
    /\ PopCalled
    /\ sp = RamSize

(***************************************************************************)
(* C19: calls and returns nest last-in-first-out: for any k successful     *)
(* CALL/RST instructions followed by k RET instructions with no other      *)
(* stack writes in between, the i-th RET sets PC to the return address     *)
(* pushed by the (k-i+1)-th call, and after the k-th RET SP equals its     *)
(* value before the first call.                                            *)
(***************************************************************************)
C19_CallsNestLifo ==
    (steps >= 1 /\ last.matched.depth > 0)
    => /\ pc = last.matched.ret
       /\ sp = last.matched.sp
       /\ Len(calls) = last.matched.depth - 1

\* three calls, then three returns: the fifth step returns from the call of
\* step 2, the sixth from the call of step 1
C19_Witness ==
    /\ steps = 6
    /\ prev.matched.depth = 2 /\ prev.matched.at = 2
    /\ last.matched.depth = 1 /\ last.matched.at = 1
    /\ calls = << >>
    /\ pc = last.matched.ret
    /\ sp = 512

(***************************************************************************)
(* Decimal adjust                                                          *)
(***************************************************************************)

\* the last step was a call of daa
DaaCalled == steps >= 1 /\ last.fn = "daa"

\* the accumulator before the last step
A0 == last.m.reg["a"]

LowAdjusted == A0 % 16 > 9 \/ last.m.flags["aux"]

\* the accumulator after the low adjustment
A1 == IF LowAdjusted THEN (A0 + 6) % 256 ELSE A0

HighAdjusted == A1 \div 16 > 9 \/ last.m.flags["carry"]

SetBits(x) == Cardinality({i \in 0 .. 7 : (x \div (2 ^ i)) % 2 = 1})

\* C15: one step on opcode 0x27 with A = 0x9B, CY = 0 and AC = 0 succeeds
\* and leaves A = 0x01, CY = 1, AC = 1, Z = 0, S = 0, P = 0.
C15_StepOn27IsDaa ==
    (/\ steps >= 1
     /\ last.fn = "execute_next"
     /\ last.op = \h27
     /\ A0 = \h9b
     /\ ~last.m.flags["carry"]
     /\ ~last.m.flags["aux"])
    => /\ last.res = "ok"
       /\ reg["a"] = \h01
       /\ flags["carry"] /\ flags["aux"]
       /\ ~flags["zero"] /\ ~flags["sign"] /\ ~flags["parity"]

\* C16: for every A, AC and CY, daa adds 6 to A when the low nibble is above
\* 9 or AC is set, and AC becomes whether that addition carried out of the
\* low nibble (0 without the addition); then it adds 6 to the high nibble
\* when the high nibble of the adjusted A is above 9 or CY is set, and CY
\* becomes whether that addition carried out of the high nibble; A ends as
\* the input plus the applied adjustments modulo 256, Z iff A = 0, S = bit 7
\* of A, P iff A has an even number of set bits.
C16_DaaAdjusts ==
    DaaCalled
    => /\ last.res = "ok"
       /\ reg["a"] = (A0 + (IF LowAdjusted THEN 6 ELSE 0)
                         + (IF HighAdjusted THEN 6 * 16 ELSE 0)) % 256
       /\ flags["aux"] = (LowAdjusted /\ (A0 % 16) + 6 > 15)
       /\ flags["carry"] = (HighAdjusted /\ (A1 \div 16) + 6 > 15)
       /\ flags["zero"] = (reg["a"] = 0)
       /\ flags["sign"] = (reg["a"] >= 128)
       /\ flags["parity"] = (SetBits(reg["a"]) % 2 = 0)

\* daa was applied to A = 0x9B with no carry: both adjustments, both carry
C16_Witness ==
    /\ DaaCalled
    /\ A0 = \h9b
    /\ ~last.m.flags["aux"] /\ ~last.m.flags["carry"]
    /\ reg["a"] = \h01
    /\ flags["aux"] /\ flags["carry"]
    /\ ~flags["zero"] /\ ~flags["sign"] /\ ~flags["parity"]

\* C20: when AC = 0 and CY = 0 before daa, both nibbles of A after daa are
\* decimal digits.
C20_DaaDigits ==
    (DaaCalled /\ ~last.m.flags["aux"] /\ ~last.m.flags["carry"])
    => /\ reg["a"] % 16 <= 9
       /\ reg["a"] \div 16 <= 9

\* daa was applied to A = 0xFF with no carry and left 0x05
C20_Witness ==
    /\ DaaCalled
    /\ A0 = \hff
    /\ ~last.m.flags["aux"] /\ ~last.m.flags["carry"]
    /\ reg["a"] = \h05

====
